---- MODULE Spec2Model ----
(***************************************************************************)
(* Model of the parallel git runner of rsanheim/fit.                       *)
(*                                                                         *)
(*   rust/src/runner.rs      the polling runner: run_parallel dispatches   *)
(*                           to run_parallel_unlimited (spawn all, wait    *)
(*                           in order) or run_parallel_limited (sliding    *)
(*                           window polled with try_wait)                  *)
(*   nit-rust/src/runner.rs  the thread runner: one scoped thread per      *)
(*                           repository, gated by a Mutex/Condvar          *)
(*                           Semaphore when 0 < max_workers < repos.len()  *)
(*                                                                         *)
(*   rust/src/runner.rs,     the helper functions format_repo_name,        *)
(*   rust/src/repo.rs        GitCommand::spawn, command_string,            *)
(*                           find_git_repos_in and parse_scan_depth, each  *)
(*                           under a specification of its own              *)
(*                                                                         *)
(* Repositories are identified by their discovery index 0..nrepos-1.  A    *)
(* Rust Vec is a sequence; a 0-based Rust position p is element p+1.       *)
(***************************************************************************)
EXTENDS Integers, Sequences, FiniteSets, TLC

\* Largest number of repositories handed to run_parallel.
MaxRepos == 3
\* Largest value of --max-connections.
MaxConn == 3

\* What the operating system does with the git process of one repository:
\*   "ok"        starts, exits with status 0, small output
\*   "nonzero"   starts, exits with status 1, small output
\*   "big"       starts, writes more than a pipe buffer holds, exits 0;
\*               cannot exit until somebody reads its pipes
\*   "spawn_err" Command::spawn returns Err
\*   "wait_err"  starts and runs, but its exit status cannot be retrieved:
\*               once it has terminated, waitpid fails (the child is no
\*               longer waitable) and try_wait / wait_with_output return
\*               Err
Fates == {"ok", "nonzero", "big", "spawn_err", "wait_err"}

Variants == {"poll", "thread"}

VARIABLES
    variant,        \* which crate runs: "poll" (rust) or "thread" (nit-rust)
    ctx,            \* ExecutionContext: [dry_run, max_connections]
    nrepos,         \* repos.len()
    fate,           \* per repository, the behaviour of its git process,
                    \* "unset" until the spawn of that process is attempted
    pc,             \* position of the main thread
    k,              \* cursor of the main thread's current for-loop
    proc,           \* per repository, the state of its OS process:
                    \* "none" not spawned yet, "nostart" spawn failed,
                    \* "running", "exited" terminated and waitable,
                    \* "lost" terminated and not waitable,
                    \* "reaped" terminated and waited for
    spawned,        \* run_parallel_unlimited: Vec<SpawnedCommand>
    next_to_spawn,  \* run_parallel_limited
    next_to_print,  \* run_parallel_limited
    active,         \* run_parallel_limited: Vec<ActiveProcess> (indices)
    completed,      \* run_parallel_limited: Vec<CompletedOutput>
    i,              \* run_parallel_limited: cursor of the poll pass
    pass_start,     \* history: the indices that were in `active` when the
                    \* current poll pass started ({} outside a pass)
    polled,         \* history: per repository, the number of try_wait
                    \* calls on its child in the current poll pass
    wpc,            \* thread runner: position of each worker thread
    count,          \* thread runner: Semaphore.count
    wresult,        \* thread runner: value each worker returns
    results,        \* thread runner: the collected Vec of results
    out,            \* lines printed on stdout, in order
    fmt_calls,      \* calls of formatter.format, in order
    arg,            \* argument of a call of one of the helper functions
                    \* (format_repo_name, command_string_with_scheme,
                    \* find_git_repos_in, parse_scan_depth) taken on its own
    ret             \* what that call returned, None while it is not made

vars == <<variant, ctx, nrepos, fate, pc, k, proc, spawned, next_to_spawn,
          next_to_print, active, completed, i, pass_start, polled, wpc,
          count, wresult, results, out, fmt_calls, arg, ret>>

lib_vars == <<arg, ret>>

config == <<variant, ctx, nrepos>>
pass_vars == <<pass_start, polled>>
limited_vars == <<next_to_spawn, next_to_print, active, completed, i,
                  pass_vars>>
thread_vars == <<wpc, count, wresult, results>>

Repos == 0 .. (nrepos - 1)
AllRepos == 0 .. (MaxRepos - 1)

None == [none |-> TRUE]

(***************************************************************************)
(* Vec helpers                                                             *)
(***************************************************************************)

\* Mutant: removes the last element instead of position p.
SwapRemoveLast(v, p) == SubSeq(v, 1, Len(v) - 1)

\* Vec::swap_remove(p): removes position p (0-based) and puts the last
\* element in its place.
SwapRemove(v, p) ==
    LET n == Len(v) IN
    [j \in 1 .. (n - 1) |-> IF j = p + 1 THEN v[n] ELSE v[j]]

\* Iterator::position: the first 0-based position whose element has the
\* index `idx`, or -1 for None.
Position(v, idx) ==
    IF \E j \in 1 .. Len(v) : v[j].index = idx
    THEN (CHOOSE j \in 1 .. Len(v) :
              /\ v[j].index = idx
              /\ \A h \in 1 .. (j - 1) : v[h].index # idx) - 1
    ELSE -1

(***************************************************************************)
(* Child processes                                                         *)
(***************************************************************************)

\* Command::spawn succeeds unless the process cannot be launched.
SpawnOk(f) == f # "spawn_err"

\* The operating system settles what becomes of repository t's process
\* when its spawn is attempted.
Launch(t, f) == fate' = [fate EXCEPT ![t] = f]

\* Output of a finished process as wait_with_output / collect_child_output
\* return it: exit status and everything written to the pipes.
OutputOf(t) ==
    [status |-> IF fate[t] = "nonzero" THEN 1 ELSE 0,
     bytes  |-> IF fate[t] = "big" THEN "big" ELSE "small"]

OkResult(t) == [ok |-> TRUE, output |-> OutputOf(t)]
ErrResult(e) == [ok |-> FALSE, err |-> e]

\* collect_child_output(child, status): read_to_end on both pipes with the
\* read's result dropped (let _ = ..), so a failed read leaves whatever was
\* read before it, and the Output is built from that and the status.
CollectChildOutput(t, read_ok) ==
    [status |-> OutputOf(t).status,
     bytes  |-> IF read_ok THEN OutputOf(t).bytes ELSE "partial"]

(***************************************************************************)
(* Printed lines                                                           *)
(***************************************************************************)

\* formatter.format(&output): the caller's one-line rendering.
Format(output) == <<"fmt", output.status, output.bytes>>

\* Mutant: the formatter is invoked a second time for the same output.
FormatterCallsTwice(calls, t, result) ==
    IF result.ok
    THEN calls \o <<[repo |-> t, output |-> result.output],
                    [repo |-> t, output |-> result.output]>>
    ELSE calls

\* The formatter calls after printing `result` of repository t:
\* match result { Ok(output) => formatter.format(output), Err(e) => .. }
FormatterCalls(calls, t, result) ==
    IF result.ok
    THEN Append(calls, [repo |-> t, output |-> result.output])
    ELSE calls

\* Mutant: an output with a non-zero exit status is printed as an error.
ResultLineChecksStatus(t, result) ==
    [repo |-> t,
     body |-> IF result.ok
              THEN (IF result.output.status = 0
                    THEN Format(result.output)
                    ELSE <<"ERROR: ", "exit status">>)
              ELSE <<"ERROR: ", result.err>>]

\* print_completed_output (limited mode) and print_result (thread runner):
\* "{label} {formatted}" or "{label} ERROR: {e}".
ResultLine(t, result) ==
    [repo |-> t,
     body |-> IF result.ok THEN Format(result.output)
              ELSE <<"ERROR: ", result.err>>]

\* print_spawned_result (unlimited mode) for a child that failed to spawn.
SpawnFailedLine(t, e) ==
    [repo |-> t, body |-> <<"ERROR: spawn failed: ", e>>]

\* command_string_with_scheme, printed in dry-run mode.
DryLine(t) == [repo |-> t, body |-> <<"git -C ", t>>]

(***************************************************************************)
(* Initial state: run_parallel is about to be called                       *)
(***************************************************************************)

\* The locals of run_parallel before its first statement.
RunnerInit ==
    /\ fate = [t \in AllRepos |-> "unset"]
    /\ pc = "start"
    /\ k = 0
    /\ proc = [t \in AllRepos |-> "none"]
    /\ spawned = <<>>
    /\ next_to_spawn = 0
    /\ next_to_print = 0
    /\ active = <<>>
    /\ completed = <<>>
    /\ i = 0
    /\ pass_start = {}
    /\ polled = [t \in AllRepos |-> 0]
    /\ wpc = [t \in AllRepos |-> "uncreated"]
    /\ count = 0
    /\ wresult = [t \in AllRepos |-> None]
    /\ results = <<>>
    /\ out = <<>>
    /\ fmt_calls = <<>>

Init ==
    /\ variant \in Variants
    /\ ctx \in [dry_run : BOOLEAN, max_connections : 0 .. MaxConn]
    /\ nrepos \in 0 .. MaxRepos
    /\ RunnerInit
    /\ arg = None
    /\ ret = None

(***************************************************************************)
(* run_parallel: dry-run and dispatch (both crates)                        *)
(***************************************************************************)

\* Mutant: only 0 means unlimited.
UnlimitedZeroOnly == ctx.max_connections = 0

\* rust: max_conn == 0 || max_conn >= repos.len()
Unlimited == ctx.max_connections = 0 \/ ctx.max_connections >= nrepos

\* let use_semaphore = max_workers > 0 && max_workers < repos.len();
UseSemaphore == ctx.max_connections > 0 /\ ctx.max_connections < nrepos

\* Mutant: the cap is looked at before the dry-run flag.
DispatchCapFirst ==
    IF variant = "poll" /\ ~Unlimited THEN "burst"
    ELSE IF ctx.dry_run THEN "dry"
    ELSE IF variant = "poll" THEN "u_spawn" ELSE "t_create"

\* The branch run_parallel takes: dry-run first, then the choice between
\* the unlimited and the limited mechanism.
Dispatch ==
    IF ctx.dry_run THEN "dry"
    ELSE IF variant = "poll"
         THEN (IF Unlimited THEN "u_spawn" ELSE "burst")
         ELSE "t_create"

\* In the thread runner run_with_semaphore creates Semaphore::new(max_workers).
RunParallel ==
    /\ pc = "start"
    /\ pc' = Dispatch
    /\ count' = IF Dispatch = "t_create" /\ UseSemaphore
                THEN ctx.max_connections ELSE count
    /\ UNCHANGED <<lib_vars, config, fate, k, proc, spawned, limited_vars,
                   wpc, wresult, results, out, fmt_calls>>

\* for repo in repos { println!(cmd.command_string_with_scheme(..)) }
DryRunPrint ==
    /\ pc = "dry"
    /\ k < nrepos
    /\ out' = Append(out, DryLine(k))
    /\ k' = k + 1
    /\ UNCHANGED <<lib_vars, config, fate, pc, proc, spawned, limited_vars,
                   thread_vars, fmt_calls>>

DryRunReturn ==
    /\ pc = "dry"
    /\ k >= nrepos
    /\ pc' = "done"
    /\ UNCHANGED <<lib_vars, config, fate, k, proc, spawned, limited_vars,
                   thread_vars, out, fmt_calls>>

(***************************************************************************)
(* The operating system: a running child exits                             *)
(***************************************************************************)

\* Mutant: the workers wait with Child::wait, which reads no pipe.
DrainingMainOnly(t) == variant = "poll" /\ pc = "u_wait" /\ k = t

\* Somebody is reading the pipes of repository t's child right now:
\* wait_with_output drains stdout/stderr while it waits.  try_wait and a
\* Child that is merely held do not read.
Draining(t) ==
    \/ variant = "thread" /\ wpc[t] = "wait"
    \/ variant = "poll" /\ pc = "u_wait" /\ k = t

\* A child whose output exceeds the pipe buffer blocks in write() until
\* its pipes are read, so it can exit only while they are drained.
CanExit(t) ==
    /\ proc[t] = "running"
    /\ fate[t] = "big" => Draining(t)

Exit(t) ==
    /\ CanExit(t)
    /\ proc' = [proc EXCEPT
                   ![t] = IF fate[t] = "wait_err" THEN "lost" ELSE "exited"]
    /\ UNCHANGED <<lib_vars, config, fate, pc, k, spawned, limited_vars,
                   thread_vars, out, fmt_calls>>

(***************************************************************************)
(* rust/src/runner.rs: run_parallel_unlimited                              *)
(***************************************************************************)

\* Phase 1, one element of repos.iter().map(..): cmd.spawn(url_scheme).
USpawn ==
    /\ pc = "u_spawn"
    /\ k < nrepos
    /\ \E f \in Fates :
        /\ Launch(k, f)
        /\ spawned' = Append(spawned,
                             [repo |-> k,
                              child |-> IF SpawnOk(f) THEN "Ok" ELSE "Err"])
        /\ proc' = [proc EXCEPT
                       ![k] = IF SpawnOk(f) THEN "running" ELSE "nostart"]
    /\ k' = k + 1
    /\ UNCHANGED <<lib_vars, config, pc, limited_vars, thread_vars, out,
                   fmt_calls>>

\* .collect(): every process has been spawned; phase 2 starts.
USpawnDone ==
    /\ pc = "u_spawn"
    /\ k >= nrepos
    /\ pc' = "u_wait"
    /\ k' = 0
    /\ UNCHANGED <<lib_vars, config, fate, proc, spawned, limited_vars,
                   thread_vars, out, fmt_calls>>

\* print_spawned_result, child: Err(e).
UPrintSpawnFailed ==
    /\ pc = "u_wait"
    /\ k < Len(spawned)
    /\ spawned[k + 1].child = "Err"
    /\ out' = Append(out, SpawnFailedLine(spawned[k + 1].repo, "spawn_e"))
    /\ k' = k + 1
    /\ UNCHANGED <<lib_vars, config, fate, pc, proc, spawned, limited_vars,
                   thread_vars, fmt_calls>>

\* print_spawned_result, child.wait_with_output() returns Err(e): the
\* child has terminated and its status cannot be retrieved.
UWaitErr ==
    /\ pc = "u_wait"
    /\ k < Len(spawned)
    /\ spawned[k + 1].child = "Ok"
    /\ proc[spawned[k + 1].repo] = "lost"
    /\ out' = Append(out, ResultLine(spawned[k + 1].repo, ErrResult("wait_e")))
    /\ k' = k + 1
    /\ UNCHANGED <<lib_vars, config, fate, pc, proc, spawned, limited_vars,
                   thread_vars, fmt_calls>>

\* print_spawned_result, child.wait_with_output() returns Ok(output): it
\* blocks until the child has exited, then the line is formatted and
\* printed.
UWaitOk ==
    /\ pc = "u_wait"
    /\ k < Len(spawned)
    /\ spawned[k + 1].child = "Ok"
    /\ LET t == spawned[k + 1].repo IN
        /\ proc[t] = "exited"
        /\ proc' = [proc EXCEPT ![t] = "reaped"]
        /\ fmt_calls' = FormatterCalls(fmt_calls, t, OkResult(t))
        /\ out' = Append(out, ResultLine(t, OkResult(t)))
    /\ k' = k + 1
    /\ UNCHANGED <<lib_vars, config, fate, pc, spawned, limited_vars,
                   thread_vars>>

UReturn ==
    /\ pc = "u_wait"
    /\ k >= Len(spawned)
    /\ pc' = "done"
    /\ UNCHANGED <<lib_vars, config, fate, k, proc, spawned, limited_vars,
                   thread_vars, out, fmt_calls>>

(***************************************************************************)
(* rust/src/runner.rs: run_parallel_limited                                *)
(***************************************************************************)

\* Mutant: a failed spawn is recorded and also takes a place in `active`.
SpawnProcessKeepsSlot(index) ==
    \E f \in Fates :
        /\ Launch(index, f)
        /\ active' = Append(active, [index |-> index])
        /\ IF SpawnOk(f)
           THEN /\ proc' = [proc EXCEPT ![index] = "running"]
                /\ UNCHANGED completed
           ELSE /\ completed' = Append(completed,
                                       [index |-> index,
                                        output |-> ErrResult("spawn_e")])
                /\ proc' = [proc EXCEPT ![index] = "nostart"]

\* spawn_process: push to `active` on success, to `completed` on failure.
SpawnProcess(index) ==
    \E f \in Fates :
        /\ Launch(index, f)
        /\ IF SpawnOk(f)
           THEN /\ active' = Append(active, [index |-> index])
                /\ proc' = [proc EXCEPT ![index] = "running"]
                /\ UNCHANGED completed
           ELSE /\ completed' = Append(completed,
                                       [index |-> index,
                                        output |-> ErrResult("spawn_e")])
                /\ proc' = [proc EXCEPT ![index] = "nostart"]
                /\ UNCHANGED active

\* Mutant: the capacity test is off by one.
HasCapacityOffByOne ==
    next_to_spawn < nrepos /\ Len(active) <= ctx.max_connections

\* next_to_spawn < repos.len() && active.len() < max_conn
HasCapacity ==
    next_to_spawn < nrepos /\ Len(active) < ctx.max_connections

\* Initial burst: spawn up to max_conn.
Burst ==
    /\ pc = "burst"
    /\ HasCapacity
    /\ SpawnProcess(next_to_spawn)
    /\ next_to_spawn' = next_to_spawn + 1
    /\ UNCHANGED <<lib_vars, config, pc, k, spawned, next_to_print, i,
                   pass_vars, thread_vars, out, fmt_calls>>

BurstDone ==
    /\ pc = "burst"
    /\ ~HasCapacity
    /\ pc' = "loop"
    /\ UNCHANGED <<lib_vars, config, fate, k, proc, spawned, limited_vars,
                   thread_vars, out, fmt_calls>>

\* The indices of the processes in `active`.
ActiveIndices == {active[j].index : j \in 1 .. Len(active)}

\* One more try_wait call on repository t's child in this pass.
Polled(t) == polled' = [polled EXCEPT ![t] = @ + 1]

\* while !active.is_empty() || next_to_print < repos.len() { let mut i = 0;
LoopHead ==
    /\ pc = "loop"
    /\ IF Len(active) > 0 \/ next_to_print < nrepos
       THEN pc' = "poll" /\ i' = 0 /\ pass_start' = ActiveIndices
       ELSE pc' = "done" /\ i' = i /\ pass_start' = pass_start
    /\ UNCHANGED <<lib_vars, config, fate, k, proc, spawned, next_to_spawn,
                   next_to_print, active, completed, polled, thread_vars,
                   out, fmt_calls>>

\* Mutant: try_wait returns Err for a child that still runs.
TryWaitErrWhileRunning(t) ==
    IF proc[t] = "lost" \/ (proc[t] = "running" /\ fate[t] = "wait_err")
    THEN "Err"
    ELSE IF proc[t] = "exited" THEN "Some" ELSE "None"

\* Child::try_wait on repository t's child: Ok(None) while it runs,
\* Ok(Some(status)) once it has exited, Err when its status cannot be
\* retrieved.
TryWait(t) ==
    IF proc[t] = "lost" THEN "Err"
    ELSE IF proc[t] = "exited" THEN "Some" ELSE "None"

\* Mutant: the cursor advances after swap_remove.
PollFinishedAdvances ==
    /\ pc = "poll"
    /\ i < Len(active)
    /\ LET t == active[i + 1].index IN
        /\ TryWait(t) = "Some"
        /\ Polled(t)
        /\ proc' = [proc EXCEPT ![t] = "reaped"]
        /\ active' = SwapRemove(active, i)
        /\ \E read_ok \in BOOLEAN :
            completed' =
                Append(completed,
                       [index |-> t,
                        output |-> [ok |-> TRUE,
                                    output |-> CollectChildOutput(t, read_ok)]])
    /\ i' = i + 1
    /\ UNCHANGED <<lib_vars, config, fate, pc, k, spawned, next_to_spawn,
                   next_to_print, pass_start, thread_vars, out, fmt_calls>>

\* Ok(Some(status)): swap_remove, collect_child_output, push to completed.
PollFinished ==
    /\ pc = "poll"
    /\ i < Len(active)
    /\ LET t == active[i + 1].index IN
        /\ TryWait(t) = "Some"
        /\ Polled(t)
        /\ proc' = [proc EXCEPT ![t] = "reaped"]
        /\ active' = SwapRemove(active, i)
        /\ \E read_ok \in BOOLEAN :
            completed' =
                Append(completed,
                       [index |-> t,
                        output |-> [ok |-> TRUE,
                                    output |-> CollectChildOutput(t, read_ok)]])
    /\ UNCHANGED <<lib_vars, config, fate, pc, k, spawned, next_to_spawn,
                   next_to_print, i, pass_start, thread_vars, out,
                   fmt_calls>>

\* Ok(None): still running, i += 1.
PollRunning ==
    /\ pc = "poll"
    /\ i < Len(active)
    /\ TryWait(active[i + 1].index) = "None"
    /\ Polled(active[i + 1].index)
    /\ i' = i + 1
    /\ UNCHANGED <<lib_vars, config, fate, pc, k, proc, spawned,
                   next_to_spawn, next_to_print, active, completed,
                   pass_start, thread_vars, out, fmt_calls>>

\* Mutant: the errored process is recorded and stays in the active set.
PollErrorKeepsActive ==
    /\ pc = "poll"
    /\ i < Len(active)
    /\ LET t == active[i + 1].index IN
        /\ TryWait(t) = "Err"
        /\ Polled(t)
        /\ completed' = Append(completed,
                               [index |-> t, output |-> ErrResult("wait_e")])
    /\ i' = i + 1
    /\ UNCHANGED <<lib_vars, config, fate, pc, k, proc, spawned,
                   next_to_spawn, next_to_print, active, pass_start,
                   thread_vars, out, fmt_calls>>

\* Err(e): swap_remove, push Err(e) to completed.
PollError ==
    /\ pc = "poll"
    /\ i < Len(active)
    /\ LET t == active[i + 1].index IN
        /\ TryWait(t) = "Err"
        /\ Polled(t)
        /\ active' = SwapRemove(active, i)
        /\ completed' = Append(completed,
                               [index |-> t, output |-> ErrResult("wait_e")])
    /\ UNCHANGED <<lib_vars, config, fate, pc, k, proc, spawned,
                   next_to_spawn, next_to_print, i, pass_start, thread_vars,
                   out, fmt_calls>>

\* while i < active.len() ends: the pass is over.
PollDone ==
    /\ pc = "poll"
    /\ i >= Len(active)
    /\ pc' = "admit"
    /\ pass_start' = {}
    /\ polled' = [t \in AllRepos |-> 0]
    /\ UNCHANGED <<lib_vars, config, fate, k, proc, spawned, next_to_spawn,
                   next_to_print, active, completed, i, thread_vars, out,
                   fmt_calls>>

\* Spawn new processes if we have capacity.
Admit ==
    /\ pc = "admit"
    /\ HasCapacity
    /\ SpawnProcess(next_to_spawn)
    /\ next_to_spawn' = next_to_spawn + 1
    /\ UNCHANGED <<lib_vars, config, pc, k, spawned, next_to_print, i,
                   pass_vars, thread_vars, out, fmt_calls>>

\* Mutant: the admission loop may be left while there is capacity and a
\* target is still queued.
AdmitDoneEarly ==
    /\ pc = "admit"
    /\ pc' = "print"
    /\ UNCHANGED <<lib_vars, config, fate, k, proc, spawned, limited_vars,
                   thread_vars, out, fmt_calls>>

AdmitDone ==
    /\ pc = "admit"
    /\ ~HasCapacity
    /\ pc' = "print"
    /\ UNCHANGED <<lib_vars, config, fate, k, proc, spawned, limited_vars,
                   thread_vars, out, fmt_calls>>

\* Mutant: the print loop takes whatever outcome is held first.
ReadyPositionAny == IF completed = <<>> THEN -1 ELSE 0

\* completed.iter().position(|c| c.index == next_to_print)
ReadyPosition == Position(completed, next_to_print)

\* while let Some(pos) = .. { swap_remove(pos); print_completed_output;
\* next_to_print += 1 }
PrintCompleted ==
    /\ pc = "print"
    /\ ReadyPosition >= 0
    /\ LET c == completed[ReadyPosition + 1] IN
        /\ completed' = SwapRemove(completed, ReadyPosition)
        /\ fmt_calls' = FormatterCalls(fmt_calls, c.index, c.output)
        /\ out' = Append(out, ResultLine(c.index, c.output))
    /\ next_to_print' = next_to_print + 1
    /\ UNCHANGED <<lib_vars, config, fate, pc, k, proc, spawned,
                   next_to_spawn, active, i, pass_vars, thread_vars>>

\* Mutant: the loop iterates without the sleep.
PrintDoneNoSleep ==
    /\ pc = "print"
    /\ ReadyPosition < 0
    /\ pc' = IF next_to_print >= nrepos THEN "done" ELSE "loop"
    /\ UNCHANGED <<lib_vars, config, fate, k, proc, spawned, limited_vars,
                   thread_vars, out, fmt_calls>>

\* Nothing more to print in this iteration: break when all is printed,
\* sleep when processes are active, otherwise iterate at once.
PrintDone ==
    /\ pc = "print"
    /\ ReadyPosition < 0
    /\ pc' = IF next_to_print >= nrepos THEN "done"
             ELSE IF Len(active) > 0 THEN "sleep" ELSE "loop"
    /\ UNCHANGED <<lib_vars, config, fate, k, proc, spawned, limited_vars,
                   thread_vars, out, fmt_calls>>

\* thread::sleep(Duration::from_millis(5))
Sleep ==
    /\ pc = "sleep"
    /\ pc' = "loop"
    /\ UNCHANGED <<lib_vars, config, fate, k, proc, spawned, limited_vars,
                   thread_vars, out, fmt_calls>>

(***************************************************************************)
(* nit-rust/src/runner.rs: Semaphore and the worker threads                *)
(***************************************************************************)

\* Workers blocked in self.cond.wait(count).
Waiters == {t \in Repos : wpc[t] = "waiting"}

\* Workers that hold a permit: acquire has returned, release not yet run.
Holders == {t \in Repos : wpc[t] \in {"spawn", "wait", "release"}}

\* Position of a worker once its result is known.
AfterResult == IF UseSemaphore THEN "release" ELSE "finished"

\* Semaphore::acquire, one pass under the mutex: with count == 0 the
\* worker blocks in cond.wait (releasing the mutex), otherwise it takes a
\* permit.  A woken worker re-takes the mutex and tests count again, that
\* is, it runs this step again.
SemAcquire(t) ==
    /\ variant = "thread"
    /\ wpc[t] = "acquire"
    /\ IF count = 0
       THEN /\ wpc' = [wpc EXCEPT ![t] = "waiting"]
            /\ UNCHANGED count
       ELSE /\ count' = count - 1
            /\ wpc' = [wpc EXCEPT ![t] = "spawn"]
    /\ UNCHANGED <<lib_vars, config, fate, pc, k, proc, spawned, limited_vars,
                   wresult, results, out, fmt_calls>>

\* Mutant: the notification is lost.
NotifyNobody(w, woken) == woken = w

\* Condvar::notify_one: wakes one blocked waiter, if there is one.
NotifyOne(w, woken) ==
    IF Waiters = {}
    THEN woken = w
    ELSE \E x \in Waiters : woken = [w EXCEPT ![x] = "acquire"]

\* Mutant: release increments the count and wakes nobody.
SemReleaseSilent(t) ==
    /\ variant = "thread"
    /\ wpc[t] = "release"
    /\ count' = count + 1
    /\ wpc' = [wpc EXCEPT ![t] = "finished"]
    /\ UNCHANGED <<lib_vars, config, fate, pc, k, proc, spawned, limited_vars,
                   wresult, results, out, fmt_calls>>

\* Semaphore::release under the mutex: *count += 1; notify_one().  The
\* worker then returns (idx, repo, result).
SemRelease(t) ==
    /\ variant = "thread"
    /\ wpc[t] = "release"
    /\ count' = count + 1
    /\ NotifyOne([wpc EXCEPT ![t] = "finished"], wpc')
    /\ UNCHANGED <<lib_vars, config, fate, pc, k, proc, spawned, limited_vars,
                   wresult, results, out, fmt_calls>>

\* Condvar::wait may return without a notification (spurious wakeup).
SpuriousWakeup(t) ==
    /\ variant = "thread"
    /\ wpc[t] = "waiting"
    /\ wpc' = [wpc EXCEPT ![t] = "acquire"]
    /\ UNCHANGED <<lib_vars, config, fate, pc, k, proc, spawned, limited_vars,
                   count, wresult, results, out, fmt_calls>>

\* Mutant: a worker whose spawn fails returns at once, without release.
WorkerSpawnSkipsRelease(t) ==
    /\ variant = "thread"
    /\ wpc[t] = "spawn"
    /\ \E f \in Fates :
        /\ Launch(t, f)
        /\ IF SpawnOk(f)
           THEN /\ proc' = [proc EXCEPT ![t] = "running"]
                /\ wpc' = [wpc EXCEPT ![t] = "wait"]
                /\ UNCHANGED wresult
           ELSE /\ proc' = [proc EXCEPT ![t] = "nostart"]
                /\ wpc' = [wpc EXCEPT ![t] = "finished"]
                /\ wresult' = [wresult EXCEPT ![t] = ErrResult("spawn_e")]
    /\ UNCHANGED <<lib_vars, config, pc, k, spawned, limited_vars, count,
                   results, out, fmt_calls>>

\* cmd.spawn(url_scheme) in a worker: Ok(child) goes on to
\* wait_with_output, Err(e) is the worker's result.
WorkerSpawn(t) ==
    /\ variant = "thread"
    /\ wpc[t] = "spawn"
    /\ \E f \in Fates :
        /\ Launch(t, f)
        /\ IF SpawnOk(f)
           THEN /\ proc' = [proc EXCEPT ![t] = "running"]
                /\ wpc' = [wpc EXCEPT ![t] = "wait"]
                /\ UNCHANGED wresult
           ELSE /\ proc' = [proc EXCEPT ![t] = "nostart"]
                /\ wpc' = [wpc EXCEPT ![t] = AfterResult]
                /\ wresult' = [wresult EXCEPT ![t] = ErrResult("spawn_e")]
    /\ UNCHANGED <<lib_vars, config, pc, k, spawned, limited_vars, count,
                   results, out, fmt_calls>>

\* child.wait_with_output() returns Ok(output) once the child has exited.
WorkerWaitOk(t) ==
    /\ variant = "thread"
    /\ wpc[t] = "wait"
    /\ proc[t] = "exited"
    /\ proc' = [proc EXCEPT ![t] = "reaped"]
    /\ wpc' = [wpc EXCEPT ![t] = AfterResult]
    /\ wresult' = [wresult EXCEPT ![t] = OkResult(t)]
    /\ UNCHANGED <<lib_vars, config, fate, pc, k, spawned, limited_vars,
                   count, results, out, fmt_calls>>

\* child.wait_with_output() returns Err(e): the child has terminated and
\* its status cannot be retrieved.
WorkerWaitErr(t) ==
    /\ variant = "thread"
    /\ wpc[t] = "wait"
    /\ proc[t] = "lost"
    /\ wpc' = [wpc EXCEPT ![t] = AfterResult]
    /\ wresult' = [wresult EXCEPT ![t] = ErrResult("wait_e")]
    /\ UNCHANGED <<lib_vars, config, fate, pc, k, proc, spawned, limited_vars,
                   count, results, out, fmt_calls>>

(***************************************************************************)
(* nit-rust/src/runner.rs: run_parallel, run_with_semaphore, run_unlimited *)
(***************************************************************************)

\* s.spawn(move || ..) for the next repository.
ThreadCreate ==
    /\ pc = "t_create"
    /\ k < nrepos
    /\ wpc' = [wpc EXCEPT ![k] = IF UseSemaphore THEN "acquire" ELSE "spawn"]
    /\ k' = k + 1
    /\ UNCHANGED <<lib_vars, config, fate, pc, proc, spawned, limited_vars,
                   count, wresult, results, out, fmt_calls>>

ThreadCreateDone ==
    /\ pc = "t_create"
    /\ k >= nrepos
    /\ pc' = "t_join"
    /\ k' = 0
    /\ UNCHANGED <<lib_vars, config, fate, proc, spawned, limited_vars,
                   thread_vars, out, fmt_calls>>

\* handles.into_iter().map(|h| h.join().unwrap()): blocks until worker k
\* has returned.
ThreadJoin ==
    /\ pc = "t_join"
    /\ k < nrepos
    /\ wpc[k] = "finished"
    /\ results' = Append(results, [index |-> k, result |-> wresult[k]])
    /\ k' = k + 1
    /\ UNCHANGED <<lib_vars, config, fate, pc, proc, spawned, limited_vars,
                   wpc, count, wresult, out, fmt_calls>>

\* Insert e into the sorted sequence s after every element whose key is
\* not larger (the sort is stable).
InsertByKey(s, e) ==
    LET before == {j \in 1 .. Len(s) : s[j].index <= e.index}
        n == Cardinality(before)
    IN  SubSeq(s, 1, n) \o <<e>> \o SubSeq(s, n + 1, Len(s))

RECURSIVE SortByKey(_)
\* sorted.sort_by_key(|(idx, _, _)| *idx)
SortByKey(s) ==
    IF s = <<>> THEN <<>>
    ELSE InsertByKey(SortByKey(SubSeq(s, 1, Len(s) - 1)), s[Len(s)])

\* .collect() of the joined results, then the sort.
ThreadSort ==
    /\ pc = "t_join"
    /\ k >= nrepos
    /\ results' = SortByKey(results)
    /\ pc' = "t_print"
    /\ k' = 0
    /\ UNCHANGED <<lib_vars, config, fate, proc, spawned, limited_vars, wpc,
                   count, wresult, out, fmt_calls>>

\* for (_, repo_path, result) in sorted { print_result(..) }
ThreadPrint ==
    /\ pc = "t_print"
    /\ k < Len(results)
    /\ LET r == results[k + 1] IN
        /\ fmt_calls' = FormatterCalls(fmt_calls, r.index, r.result)
        /\ out' = Append(out, ResultLine(r.index, r.result))
    /\ k' = k + 1
    /\ UNCHANGED <<lib_vars, config, fate, pc, proc, spawned, limited_vars,
                   thread_vars>>

ThreadReturn ==
    /\ pc = "t_print"
    /\ k >= Len(results)
    /\ pc' = "done"
    /\ UNCHANGED <<lib_vars, config, fate, k, proc, spawned, limited_vars,
                   thread_vars, out, fmt_calls>>

(***************************************************************************)
(* Specification                                                           *)
(***************************************************************************)

Next ==
    \/ RunParallel
    \/ DryRunPrint
    \/ DryRunReturn
    \/ \E t \in Repos : Exit(t)
    \/ USpawn
    \/ USpawnDone
    \/ UPrintSpawnFailed
    \/ UWaitErr
    \/ UWaitOk
    \/ UReturn
    \/ Burst
    \/ BurstDone
    \/ LoopHead
    \/ PollFinished
    \/ PollRunning
    \/ PollError
    \/ PollDone
    \/ Admit
    \/ AdmitDone
    \/ PrintCompleted
    \/ PrintDone
    \/ Sleep
    \/ \E t \in Repos : SemAcquire(t)
    \/ \E t \in Repos : SemRelease(t)
    \/ \E t \in Repos : SpuriousWakeup(t)
    \/ \E t \in Repos : WorkerSpawn(t)
    \/ \E t \in Repos : WorkerWaitOk(t)
    \/ \E t \in Repos : WorkerWaitErr(t)
    \/ ThreadCreate
    \/ ThreadCreateDone
    \/ ThreadJoin
    \/ ThreadSort
    \/ ThreadPrint
    \/ ThreadReturn

Spec == Init /\ [][Next]_vars

\* Steps of the thread that called run_parallel.
MainStep ==
    \/ RunParallel \/ DryRunPrint \/ DryRunReturn
    \/ USpawn \/ USpawnDone \/ UPrintSpawnFailed \/ UWaitErr \/ UWaitOk
    \/ UReturn
    \/ Burst \/ BurstDone \/ LoopHead \/ PollFinished \/ PollRunning
    \/ PollError \/ PollDone \/ Admit \/ AdmitDone \/ PrintCompleted
    \/ PrintDone \/ Sleep
    \/ ThreadCreate \/ ThreadCreateDone \/ ThreadJoin \/ ThreadSort
    \/ ThreadPrint \/ ThreadReturn

\* Steps of the worker thread of repository t.  A spurious wakeup is
\* possible but nothing guarantees it, so it is no step to rely on.
WorkerStep(t) ==
    \/ SemAcquire(t) \/ SemRelease(t) \/ WorkerSpawn(t)
    \/ WorkerWaitOk(t) \/ WorkerWaitErr(t)

\* The operating system schedules every runnable thread, and a child
\* that is able to exit does exit.
FairSpec ==
    /\ Spec
    /\ WF_vars(MainStep)
    /\ \A t \in AllRepos : WF_vars(WorkerStep(t)) /\ WF_vars(Exit(t))

(***************************************************************************)
(* Properties                                                              *)
(***************************************************************************)

\* The run took the cap-limited mechanism of its crate.
LimitedRun ==
    /\ ~ctx.dry_run
    /\ pc # "start"
    /\ 0 < ctx.max_connections
    /\ ctx.max_connections < nrepos

PollLimited == variant = "poll" /\ LimitedRun
ThreadLimited == variant = "thread" /\ LimitedRun

\* Number of elements of the Vec v that belong to repository t.
CountIndex(v, t) == Cardinality({j \in 1 .. Len(v) : v[j].index = t})
CountRepo(v, t) == Cardinality({j \in 1 .. Len(v) : v[j].repo = t})

\* Children that have been started and are not yet waited for.
Live == {t \in Repos : proc[t] \in {"running", "exited"}}

\* C1: whatever the completion order, the result lines are printed for
\* the discovery indices 0, 1, .., N-1 in exactly that order (at all times
\* a prefix of it, all N of them once run_parallel has returned), in the
\* polling runner's limited and unlimited paths and in the thread runner.
C1_OutputInDiscoveryOrder ==
    ~ctx.dry_run =>
        /\ Len(out) <= nrepos
        /\ \A j \in 1 .. Len(out) : out[j].repo = j - 1
        /\ pc = "done" => Len(out) = nrepos

\* Witness of C1: repository 2 has completed before repository 1, which
\* is still active, and the line of repository 0 is printed.
C1_Witness ==
    /\ PollLimited
    /\ Len(out) = 1
    /\ CountIndex(completed, 2) = 1
    /\ CountIndex(active, 1) = 1

\* C2: with a cap 0 < c < N, in every reachable state at most c children
\* are started and not yet finished; the active set of the polling runner
\* holds at most max_conn processes and at most max_workers workers of the
\* thread runner are between acquire and release.
C2_CapRespected ==
    LimitedRun =>
        /\ Cardinality(Live) <= ctx.max_connections
        /\ Len(active) <= ctx.max_connections
        /\ Cardinality(Holders) <= ctx.max_connections

\* Witness of C2: the cap is reached while a repository is still queued,
\* in either runner.
C2_Witness ==
    /\ LimitedRun
    /\ ctx.max_connections = 2
    /\ Cardinality(Live) = 2
    /\ proc[2] = "none"
    /\ \/ variant = "poll" /\ pc = "sleep"
       \/ variant = "thread" /\ wpc[2] = "waiting"

\* C3: every target gets exactly one outcome and exactly one printed
\* line: no index is held, recorded or printed twice, and once
\* run_parallel has returned every index has its line and no outcome is
\* left behind, whatever mix of spawn failures and status errors occurs.
C3_ExactlyOneOutcome ==
    ~ctx.dry_run =>
        /\ \A t \in Repos :
            /\ CountRepo(out, t) <= 1
            /\ CountIndex(results, t) <= 1
            /\ variant = "poll" =>
                 CountIndex(active, t) + CountIndex(completed, t)
                     + CountRepo(out, t) <= 1
        /\ pc = "done" =>
            /\ \A t \in Repos : CountRepo(out, t) = 1
            /\ Len(out) = nrepos
            /\ active = <<>>
            /\ completed = <<>>
            /\ variant = "thread" => Len(results) = nrepos

\* Witness of C3: a finished limited run over three repositories, one
\* that failed to start, one whose status could not be retrieved and one
\* that succeeded.
C3_Witness ==
    /\ PollLimited
    /\ pc = "done"
    /\ nrepos = 3
    /\ \E a, b, c \in Repos :
        /\ fate[a] = "spawn_err"
        /\ fate[b] = "wait_err"
        /\ fate[c] = "ok"

\* Some thread or child can take a step without relying on a spurious
\* wakeup.
CanStep ==
    ENABLED (MainStep \/ \E t \in Repos : WorkerStep(t) \/ Exit(t))

\* run_parallel has returned with every line printed.
Returned == pc = "done" /\ Len(out) = nrepos

\* C4: the scheduler never reaches a state where run_parallel has not
\* returned and no step is enabled; and if every started child eventually
\* exits, every target is eventually started or has its start failure
\* recorded, yields its outcome, and run_parallel returns with all N lines
\* printed.
C4_EventuallyReturns ==
    /\ [](pc # "done" => CanStep)
    /\ (\A t \in AllRepos : []<>(proc[t] # "running")) => <>Returned

\* Witness of C4: a cap-limited thread run over three repositories has
\* returned although one of them failed to start.
C4_Witness ==
    /\ ThreadLimited
    /\ Returned
    /\ nrepos = 3
    /\ \E t \in Repos : fate[t] = "spawn_err"

\* The lines a target that failed to start may get.
SpawnFailureLines(t) ==
    {ResultLine(t, ErrResult("spawn_e")), SpawnFailedLine(t, "spawn_e")}

\* C5: a target whose process fails to start gets a Failure outcome at
\* its own index (held until it is printed as that index's ERROR line),
\* takes no slot afterwards (it is never in the active set; its worker
\* goes straight to release and never waits on a child), and admission
\* goes on: after each admission step the active set is full or every
\* target has been started, and no permit is lost.
C5_SpawnFailureHandled ==
    ~ctx.dry_run =>
        /\ \A t \in Repos : proc[t] = "nostart" =>
            /\ CountIndex(active, t) = 0
            /\ t \notin Live
            /\ Len(out) > t => out[t + 1] \in SpawnFailureLines(t)
            /\ PollLimited =>
                 \/ t < next_to_print
                 \/ \E j \in 1 .. Len(completed) :
                        completed[j] = [index |-> t,
                                        output |-> ErrResult("spawn_e")]
            /\ variant = "thread" =>
                 /\ wpc[t] \in {"release", "finished"}
                 /\ wresult[t] = ErrResult("spawn_e")
        /\ PollLimited /\ pc \in {"print", "sleep"} =>
             Len(active) = ctx.max_connections \/ next_to_spawn = nrepos
        /\ ThreadLimited =>
             count + Cardinality(Holders) = ctx.max_connections

\* Witness of C5: repository 0 failed to start and, with a cap of 2, the
\* two repositories queued behind it are both running.
C5_Witness ==
    /\ PollLimited
    /\ ctx.max_connections = 2
    /\ proc[0] = "nostart"
    /\ proc[1] = "running"
    /\ proc[2] = "running"

\* Positions of run_parallel_limited.
LimitedPcs == {"burst", "loop", "poll", "admit", "print", "sleep"}

\* C6: the cap-limited path is taken exactly when 0 < max_connections < N.
\* With max_connections = 0 or >= N nothing bounds the starts: the
\* polling runner attempts every spawn before its first wait and keeps no
\* active set, and no worker of the thread runner ever acquires, waits
\* for or releases a permit.
C6_UnlimitedWhenNoCap ==
    LET capped == 0 < ctx.max_connections /\ ctx.max_connections < nrepos
    IN  (~ctx.dry_run /\ pc # "start") =>
        /\ (variant = "poll" /\ capped) =>
            /\ pc \in LimitedPcs \cup {"done"}
            /\ spawned = <<>>
        /\ (variant = "poll" /\ ~capped) =>
            /\ pc \in {"u_spawn", "u_wait", "done"}
            /\ next_to_spawn = 0
            /\ active = <<>>
            /\ completed = <<>>
            /\ pc \in {"u_wait", "done"} =>
                 \A t \in Repos : proc[t] # "none"
            /\ \A t \in Repos :
                 proc[t] = "reaped" => \A u \in Repos : proc[u] # "none"
        /\ (variant = "thread" /\ capped) =>
            /\ count + Cardinality(Holders) = ctx.max_connections
        /\ (variant = "thread" /\ ~capped) =>
            /\ count = 0
            /\ \A t \in Repos : wpc[t] \notin {"acquire", "waiting", "release"}

\* Witness of C6: with max_connections = N = 3 the polling runner has
\* started all three processes and none has finished.
C6_Witness ==
    /\ variant = "poll"
    /\ ~ctx.dry_run
    /\ nrepos = 3
    /\ ctx.max_connections = 3
    /\ pc = "u_wait"
    /\ \A t \in Repos : proc[t] = "running"

\* C7: in dry-run mode exactly one rendered command line per target is
\* printed, in discovery order; no process is started, no worker thread
\* is created, no permit, active set or buffer is used and the formatter
\* is never called, whatever the cap.
C7_DryRun ==
    ctx.dry_run =>
        /\ Len(out) <= nrepos
        /\ \A j \in 1 .. Len(out) : out[j] = DryLine(j - 1)
        /\ pc = "done" => Len(out) = nrepos
        /\ \A t \in AllRepos :
            proc[t] = "none" /\ fate[t] = "unset" /\ wpc[t] = "uncreated"
        /\ active = <<>> /\ completed = <<>> /\ spawned = <<>>
        /\ results = <<>> /\ count = 0 /\ fmt_calls = <<>>

\* Witness of C7: a dry run over three repositories with a cap of 1 has
\* returned.
C7_Witness ==
    /\ ctx.dry_run
    /\ ctx.max_connections = 1
    /\ nrepos = 3
    /\ pc = "done"
    /\ Len(out) = 3

\* The runner holds the outcome of repository t and has not printed it.
HeldUnprinted(t) ==
    /\ t >= Len(out)
    /\ \/ variant = "poll" /\ CountIndex(completed, t) = 1
       \/ variant = "thread" /\ wpc[t] = "finished"

\* The main thread sleeps or is blocked: in the sleep of the polling
\* loop, in wait_with_output on a running child, or in join on a worker
\* that has not returned.
MainIdle ==
    \/ pc = "sleep"
    \/ /\ pc = "u_wait"
       /\ k < Len(spawned)
       /\ proc[spawned[k + 1].repo] = "running"
    \/ pc = "t_join" /\ k < nrepos /\ wpc[k] # "finished"

\* C8: results are released incrementally in every runner variant: the
\* line of index i is printed as soon as the outcomes of indices 0..i are
\* held, so whenever the main thread sleeps or blocks, the outcome of the
\* next index to emit is not among the held ones.
C8_IncrementalEmission ==
    (~ctx.dry_run /\ MainIdle /\ Len(out) < nrepos) =>
        ~HeldUnprinted(Len(out))

\* The main thread is blocked in wait_with_output on the running child
\* of repository s.
MainBlockedOn(s) ==
    /\ variant = "poll"
    /\ pc = "u_wait"
    /\ k < Len(spawned)
    /\ spawned[k + 1].repo = s
    /\ spawned[k + 1].child = "Ok"
    /\ proc[s] = "running"

\* C9: a slow target delays only the printing of later results: while
\* the runner waits on the running process of s, every other started
\* target is able to run to completion, and none has finished without its
\* outcome being captured.
C9_SlowDelaysOnlyPrinting ==
    \A s, t \in Repos :
        (s # t /\ MainBlockedOn(s)) =>
            /\ proc[t] = "running" => CanExit(t)
            /\ proc[t] \notin {"exited", "lost"}

\* The printed line of repository t carries the formatter's text.
IsFormatted(line) == line.body[1] = "fmt"

\* The repositories of a sequence of lines or formatter calls.
ReposOf(v) == [j \in 1 .. Len(v) |-> v[j].repo]

\* Every formatter call was made on the output captured from a child
\* that had exited and been waited for (in the limited polling path: on
\* what collect_child_output read of it), with the child's exit status,
\* and the calls follow increasing discovery index.
FormatterCallsSound ==
    /\ \A j \in 1 .. Len(fmt_calls) :
        /\ proc[fmt_calls[j].repo] = "reaped"
        /\ fmt_calls[j].output.status = OutputOf(fmt_calls[j].repo).status
        /\ \/ fmt_calls[j].output = OutputOf(fmt_calls[j].repo)
           \/ /\ PollLimited
              /\ fmt_calls[j].output =
                     CollectChildOutput(fmt_calls[j].repo, FALSE)
    /\ \A a, b \in 1 .. Len(fmt_calls) :
        a < b => fmt_calls[a].repo < fmt_calls[b].repo

HeldOutcomes == {completed[j] : j \in 1 .. Len(completed)}

\* C11: a process that was launched but whose status retrieval or output
\* collection failed gets a Failure outcome, printed as the ERROR line of
\* its own index: the line of a child whose status could not be retrieved
\* is that ERROR line, no Success outcome or formatted line carries
\* anything but the complete output of its child, and the other targets
\* get their lines all the same.
C11_RuntimeFailureIsErrorLine ==
    ~ctx.dry_run =>
        /\ \A j \in 1 .. Len(out) :
            LET t == out[j].repo IN
            /\ t = j - 1
            /\ proc[t] = "lost" => out[j] = ResultLine(t, ErrResult("wait_e"))
            /\ IsFormatted(out[j]) => out[j].body = Format(OutputOf(t))
        /\ \A c \in HeldOutcomes :
            c.output.ok => c.output.output = OutputOf(c.index)
        /\ pc = "done" => Len(out) = nrepos

\* C12: a process that exits with a non-zero status yields a Success
\* outcome carrying that status, and its line is the formatter's rendering
\* of it, never an ERROR line; it is handled like any other exit: it
\* leaves the active set or releases its permit, and the run goes on to
\* print every line.
C12_NonZeroExitIsSuccess ==
    ~ctx.dry_run =>
        /\ \A t \in Repos : fate[t] = "nonzero" =>
            /\ Len(out) > t =>
                /\ IsFormatted(out[t + 1])
                /\ out[t + 1].body[2] = 1
                /\ \E j \in 1 .. Len(fmt_calls) :
                    /\ fmt_calls[j].repo = t
                    /\ fmt_calls[j].output.status = 1
            /\ \A c \in HeldOutcomes : c.index = t =>
                /\ c.output.ok
                /\ c.output.output.status = 1
            /\ wresult[t] # None => wresult[t] = OkResult(t)
            /\ proc[t] = "reaped" =>
                /\ CountIndex(active, t) = 0
                /\ wpc[t] \in {"uncreated", "release", "finished"}
        /\ pc = "done" => Len(out) = nrepos

\* Witness of C12: a finished cap-limited polling run in which repository
\* 0 exited with a non-zero status and the two behind it exited with 0.
C12_Witness ==
    /\ PollLimited
    /\ pc = "done"
    /\ nrepos = 3
    /\ fate[0] = "nonzero"
    /\ fate[1] = "ok"
    /\ fate[2] = "ok"
    /\ Len(fmt_calls) = 3

\* C13: in the thread runner a child that writes more than the pipe
\* buffer holds does not deadlock: whenever a child of a worker runs, its
\* pipes are being drained, so it is able to exit; a running child with
\* large output leads to its worker holding Ok(output), and that output is
\* all the child wrote.
C13_LargeOutputNoDeadlock ==
    /\ [](variant = "thread" =>
             \A t \in Repos : proc[t] = "running" => CanExit(t))
    /\ \A t \in AllRepos :
        (variant = "thread" /\ fate[t] = "big" /\ proc[t] = "running")
            ~> (wresult[t] = OkResult(t))
    /\ [](\A t \in Repos :
             (variant = "thread" /\ fate[t] = "big" /\ wresult[t] # None)
                 => wresult[t].output.bytes = "big")

\* Witness of C13: a cap-limited thread run has returned and printed the
\* line of a child whose output exceeded the pipe buffer.
C13_Witness ==
    /\ ThreadLimited
    /\ pc = "done"
    /\ \E t \in Repos :
        /\ fate[t] = "big"
        /\ wresult[t] = OkResult(t)
        /\ out[t + 1] = ResultLine(t, OkResult(t))

\* The outcome of target t, settled by what became of its process: a
\* Failure when it did not start or its status could not be retrieved, a
\* Success with the captured output when it was waited for.
Outcomes(t) ==
    IF proc[t] = "nostart" THEN {ErrResult("spawn_e")}
    ELSE IF proc[t] = "lost" THEN {ErrResult("wait_e")}
    ELSE IF proc[t] = "reaped"
    THEN {OkResult(t), [ok |-> TRUE, output |-> CollectChildOutput(t, FALSE)]}
    ELSE {}

\* C14: the printed lines depend on the targets' outcomes alone, not on
\* the mechanism that produced them: in the unlimited and the limited
\* polling path and in the thread runner with or without semaphore the
\* line at position i is the line of target i, and it is the one text
\* "{label} {formatted}" or "{label} ERROR: {e}" of that target's outcome,
\* also for a target that failed to start.
C14_SameLinesEveryMechanism ==
    ~ctx.dry_run =>
        \A j \in 1 .. Len(out) :
            LET t == out[j].repo IN
            /\ t = j - 1
            /\ \E o \in Outcomes(t) : out[j] = ResultLine(t, o)

\* C19: run_parallel_limited starts the targets in strictly increasing
\* discovery index (the started targets are exactly 0 .. next_to_spawn-1
\* and each start is that of index next_to_spawn), and admission is
\* work-conserving: when the loop prints and when it sleeps, the active set
\* holds exactly max_conn processes or every target has been started.
C19_WorkConservingAdmission ==
    /\ [](PollLimited =>
             /\ next_to_spawn <= nrepos
             /\ \A t \in Repos : proc[t] # "none" <=> t < next_to_spawn
             /\ pc \in {"print", "sleep"} =>
                  \/ Len(active) = ctx.max_connections
                  \/ next_to_spawn = nrepos)
    /\ [][\A t \in AllRepos :
             (variant = "poll" /\ pc \in LimitedPcs
              /\ proc[t] = "none" /\ proc'[t] # "none")
                 => (t = next_to_spawn /\ next_to_spawn' = t + 1)]_vars

\* Witness of C19: with a cap of 2, repository 0 has finished and its slot
\* is refilled: the loop sleeps with repositories 1 and 2 active.
C19_Witness ==
    /\ PollLimited
    /\ pc = "sleep"
    /\ ctx.max_connections = 2
    /\ proc[0] = "reaped"
    /\ Len(active) = 2
    /\ proc[1] = "running"
    /\ proc[2] = "running"

\* C20: in run_parallel_limited a child that cannot exit until its pipes
\* are read (its output exceeds the pipe buffer) is still eventually found
\* complete by the poll, its output is drained and its line printed, and
\* the polling loop returns.
C20_BlockedChildCompletes ==
    \A t \in AllRepos :
        (PollLimited /\ fate[t] = "big" /\ proc[t] = "running")
            ~> (Len(out) > t /\ Returned)

\* Workers that are awake inside Semaphore::acquire: about to take the
\* mutex and test count.
Acquiring == {t \in Repos : wpc[t] = "acquire"}

\* C21: in the thread runner no wakeup is lost: whenever a worker is
\* blocked in Semaphore::acquire, every available permit is matched by a
\* worker that is awake in acquire and about to take it; and, provided
\* every started process finishes, every worker blocked in acquire
\* eventually obtains a permit.
C21_NoLostWakeup ==
    /\ [](Waiters # {} => count <= Cardinality(Acquiring))
    /\ (\A t \in AllRepos : []<>(proc[t] # "running")) =>
           \A t \in AllRepos : (wpc[t] = "waiting") ~> (wpc[t] = "spawn")

\* Witness of C21: with one permit and three workers, a release has just
\* woken one blocked worker (the permit is available, the woken worker has
\* not taken it yet) while another worker is still blocked.
C21_Witness ==
    /\ ThreadLimited
    /\ ctx.max_connections = 1
    /\ nrepos = 3
    /\ pc = "t_join"
    /\ count = 1
    /\ \E a, b, c \in Repos :
        /\ wpc[a] = "finished"
        /\ wpc[b] = "acquire"
        /\ wpc[c] = "waiting"

\* C22: permit conservation in the thread runner: the count stays within
\* 0 .. max_workers and count plus the workers between their acquire and
\* their release is max_workers; a worker takes a permit only by leaving
\* acquire (count goes down by one), gives it back only by leaving release
\* (count goes up by one), does each once and nothing else moves the
\* count; a worker returns only through release, also after a failed spawn
\* or a failed wait, and when run_parallel has returned every permit is
\* back.
C22_PermitConservation ==
    /\ [](ThreadLimited =>
             /\ count \in 0 .. ctx.max_connections
             /\ count + Cardinality(Holders) = ctx.max_connections
             /\ \A t \in Repos :
                    wresult[t] # None => wpc[t] \in {"release", "finished"}
             /\ pc = "done" =>
                    /\ count = ctx.max_connections
                    /\ \A t \in Repos : wpc[t] = "finished")
    /\ [][ThreadLimited =>
             /\ \A t \in Repos :
                 /\ (t \notin Holders /\ t \in Holders')
                        => (wpc[t] = "acquire" /\ wpc'[t] = "spawn"
                            /\ count' = count - 1)
                 /\ (t \in Holders /\ t \notin Holders')
                        => (wpc[t] = "release" /\ wpc'[t] = "finished"
                            /\ count' = count + 1)
                 /\ wpc[t] = "finished" => wpc'[t] = "finished"
                 /\ (wpc[t] # "finished" /\ wpc'[t] = "finished")
                        => wpc[t] = "release"
             /\ count' # count => Holders' # Holders]_vars

\* Witness of C22: a cap-limited thread run over three repositories has
\* returned with both permits back, although one process failed to start
\* and the wait for another returned an error.
C22_Witness ==
    /\ ThreadLimited
    /\ pc = "done"
    /\ nrepos = 3
    /\ ctx.max_connections = 2
    /\ count = 2
    /\ \E a, b \in Repos :
        /\ wresult[a] = ErrResult("spawn_e")
        /\ wresult[b] = ErrResult("wait_e")

\* C23: bookkeeping of run_parallel_limited, at every step of the loop and
\* so at every iteration boundary: next_to_print <= next_to_spawn <= N;
\* every index below next_to_print is printed and in neither list; every
\* index from next_to_print up to next_to_spawn is in exactly one of
\* active and completed, once; no index from next_to_spawn on is in
\* either; so |active| + |completed| = next_to_spawn - next_to_print; and
\* on return both lists are empty and next_to_print = N.
C23_LimitedBookkeeping ==
    PollLimited =>
        /\ next_to_print <= next_to_spawn
        /\ next_to_spawn <= nrepos
        /\ Len(out) = next_to_print
        /\ \A t \in Repos :
            /\ t < next_to_print =>
                /\ CountRepo(out, t) = 1
                /\ CountIndex(active, t) + CountIndex(completed, t) = 0
            /\ (next_to_print <= t /\ t < next_to_spawn) =>
                CountIndex(active, t) + CountIndex(completed, t) = 1
            /\ t >= next_to_spawn =>
                CountIndex(active, t) + CountIndex(completed, t) = 0
        /\ Len(active) + Len(completed) = next_to_spawn - next_to_print
        /\ pc = "done" =>
            /\ active = <<>>
            /\ completed = <<>>
            /\ next_to_print = nrepos

\* Witness of C23: at the top of an iteration repository 0 is printed,
\* repository 2 is held in the completed buffer and repository 1 is still
\* in the active set.
C23_Witness ==
    /\ PollLimited
    /\ pc = "loop"
    /\ next_to_print = 1
    /\ next_to_spawn = 3
    /\ CountIndex(active, 1) = 1
    /\ CountIndex(completed, 2) = 1

\* C24: in each poll pass of run_parallel_limited every process that was
\* in the active set when the pass started is polled exactly once: during
\* the pass only such processes are polled, none more than once, and the
\* processes still in the active set are polled exactly when they are
\* below the cursor (so the element swap_remove moves to the cursor is not
\* skipped); when the pass ends each of them has been polled once.
C24_PollPassOnce ==
    /\ []((PollLimited /\ pc = "poll") =>
             /\ \A t \in Repos :
                 /\ polled[t] <= 1
                 /\ polled[t] = 1 => t \in pass_start
             /\ ActiveIndices \subseteq pass_start
             /\ \A j \in 1 .. Len(active) :
                    polled[active[j].index] = IF j <= i THEN 1 ELSE 0)
    /\ [][(PollLimited /\ pc = "poll" /\ pc' = "admit") =>
             \A t \in AllRepos :
                 polled[t] = IF t \in pass_start THEN 1 ELSE 0]_vars

\* Witness of C24: the pass started with repositories 0 and 1 active;
\* repository 0 was found finished and removed, repository 1 was moved to
\* its position and has been polled there.
C24_Witness ==
    /\ PollLimited
    /\ pc = "poll"
    /\ pass_start = {0, 1}
    /\ active = <<[index |-> 1]>>
    /\ i = 1
    /\ polled[0] = 1
    /\ polled[1] = 1

\* C25: run_parallel_limited never iterates without sleeping: when the
\* active set is empty after the admission step, every target has been
\* started and every unprinted outcome is in the completed buffer; the
\* print step then flushes them all and the loop exits in that iteration
\* (it is left with next_to_print = N); an iteration that is followed by
\* another one has a non-empty active set and goes through the sleep.
C25_NoIterationWithoutSleep ==
    /\ []((PollLimited /\ pc = "print" /\ active = <<>>) =>
             /\ next_to_spawn = nrepos
             /\ \A t \in Repos :
                    t >= next_to_print => CountIndex(completed, t) = 1)
    /\ [][PollLimited =>
             /\ (pc = "print" /\ pc' # "print") =>
                    IF active = <<>>
                    THEN pc' = "done" /\ next_to_print = nrepos
                    ELSE pc' \in {"done", "sleep"}
             /\ (pc # "loop" /\ pc' = "loop") => pc \in {"burst", "sleep"}
             /\ pc' = "sleep" => active # <<>>]_vars

\* Witness of C25: after the admission step the active set is empty and
\* the outcomes of repositories 1 and 2 wait in the completed buffer to be
\* flushed.
C25_Witness ==
    /\ PollLimited
    /\ pc = "print"
    /\ active = <<>>
    /\ next_to_print = 1
    /\ Len(completed) = 2

\* Children that have been started and have not exited yet.
Running == {t \in Repos : proc[t] = "running"}

runner_vars == <<config, fate, pc, k, proc, spawned, limited_vars,
                 thread_vars, out, fmt_calls>>

\* run_parallel has not been called.
RunnerIdle ==
    /\ variant = "poll"
    /\ ctx = [dry_run |-> FALSE, max_connections |-> 0]
    /\ nrepos = 0
    /\ RunnerInit

(***************************************************************************)
(* runner.rs (both crates): format_repo_name                               *)
(*                                                                         *)
(* A &str is a sequence of characters; a character is a one-letter string, *)
(* or the code point of a character that takes more than one byte in       *)
(* UTF-8.                                                                  *)
(***************************************************************************)

\* const MAX_REPO_NAME_WIDTH: usize = 24;
MAX_REPO_NAME_WIDTH == 24

\* Longest generated name, in characters.
MaxNameLen == 27

\* e-acute takes two bytes in UTF-8, a CJK ideograph three.
WideChars == {"U+00E9", "U+4E2D"}

\* The length of the UTF-8 encoding of a character.
Utf8Len(c) == IF c = "U+00E9" THEN 2 ELSE IF c = "U+4E2D" THEN 3 ELSE 1

Letters ==
    <<"a", "b", "c", "d", "e", "f", "g", "h", "i", "j", "k", "l", "m", "n",
      "o", "p", "q", "r", "s", "t", "u", "v", "w", "x", "y", "z">>

\* The name of n characters whose j-th character is the j-th letter,
\* except for the character c at position p (p = 0: no exception).
NameOf(n, p, c) ==
    [j \in 1 .. n |->
        IF j = p THEN c ELSE Letters[((j - 1) % Len(Letters)) + 1]]

\* "my-repo"
ShortExample == <<"m", "y", "-", "r", "e", "p", "o">>

\* "this-is-a-very-long-repository-name"
LongExample ==
    <<"t", "h", "i", "s", "-", "i", "s", "-", "a", "-", "v", "e", "r", "y",
      "-", "l", "o", "n", "g", "-", "r", "e", "p", "o", "s", "i", "t", "o",
      "r", "y", "-", "n", "a", "m", "e">>

\* Repository names: ASCII names of every length up to MaxNameLen, the
\* same with one multi-byte character at any position, and the two names
\* of the unit tests.
Names ==
    {NameOf(n, 0, "a") : n \in 0 .. MaxNameLen}
        \cup {NameOf(n2[1], n2[2], c) :
                 n2 \in {x \in (1 .. MaxNameLen) \X (1 .. MaxNameLen) :
                            x[2] <= x[1]},
                 c \in WideChars}
        \cup {ShortExample, LongExample}

RECURSIVE ByteLen(_)
\* str::len: the length in bytes.
ByteLen(str) ==
    IF str = <<>> THEN 0
    ELSE Utf8Len(str[1]) + ByteLen(SubSeq(str, 2, Len(str)))

\* The number of leading characters of str that end at byte n exactly,
\* or -1 when byte n lies inside a character (str::is_char_boundary).
CharsInBytes(str, n) ==
    IF \E j \in 0 .. Len(str) : ByteLen(SubSeq(str, 1, j)) = n
    THEN CHOOSE j \in 0 .. Len(str) : ByteLen(SubSeq(str, 1, j)) = n
    ELSE -1

\* format!("{:<width$}", s): s followed by spaces up to `width`
\* characters; a longer s is left as it is.
PadRight(s, width) ==
    IF Len(s) >= width THEN s
    ELSE s \o [j \in 1 .. (width - Len(s)) |-> " "]

\* The slice &name[..n] panics when n is not a character boundary.
Panicked == [ok |-> FALSE, text |-> <<>>]

\* format_repo_name(name)
FormatRepoName(name) ==
    IF ByteLen(name) > MAX_REPO_NAME_WIDTH
    THEN LET cut == CharsInBytes(name, MAX_REPO_NAME_WIDTH - 4) IN
         IF cut < 0 THEN Panicked
         ELSE [ok |-> TRUE,
               text |-> <<"[">>
                        \o PadRight(SubSeq(name, 1, cut)
                                        \o <<"-", ".", ".", ".">>,
                                    MAX_REPO_NAME_WIDTH)
                        \o <<"]">>]
    ELSE [ok |-> TRUE,
          text |-> <<"[">> \o PadRight(name, MAX_REPO_NAME_WIDTH) \o <<"]">>]

LabelInit ==
    /\ RunnerIdle
    /\ arg \in Names
    /\ ret = None

\* let label = format_repo_name(&name);
FormatRepoNameCall ==
    /\ ret = None
    /\ ret' = FormatRepoName(arg)
    /\ UNCHANGED <<arg, runner_vars>>

LabelSpec == LabelInit /\ [][FormatRepoNameCall]_vars

\* C15: format_repo_name returns a bracketed label of total width 26 for
\* every name: a name of at most 24 characters is left-aligned and padded
\* with spaces to 24, a longer name is cut to its first 20 characters
\* followed by "-..."; "my-repo" gives "[my-repo                 ]" and
\* "this-is-a-very-long-repository-name" gives
\* "[this-is-a-very-long--...]".
C15_LabelWidth26 ==
    ret # None =>
        /\ ret.ok
        /\ Len(ret.text) = 26
        /\ Len(arg) <= 24 =>
             ret.text = <<"[">> \o arg
                            \o [j \in 1 .. (24 - Len(arg)) |-> " "]
                            \o <<"]">>
        /\ Len(arg) > 24 =>
             ret.text = <<"[">> \o SubSeq(arg, 1, 20)
                            \o <<"-", ".", ".", ".", "]">>
        /\ arg = LongExample =>
             ret.text = <<"[", "t", "h", "i", "s", "-", "i", "s", "-", "a",
                          "-", "v", "e", "r", "y", "-", "l", "o", "n", "g",
                          "-", "-", ".", ".", ".", "]">>

(***************************************************************************)
(* rust/src/runner.rs: GitCommand::spawn and command_string_with_scheme    *)
(*                                                                         *)
(* An argument is a sequence of symbols, a text is one too: the symbols    *)
(* are characters ("x", the space, the double quote) and the fixed words   *)
(* of the source ("git", "-c", "-C", the two override values), each taken  *)
(* as one symbol that holds no space and no quote.                         *)
(***************************************************************************)

\* Longest repo_path and longest argument, in characters.
MaxWordLen == 2
\* Largest number of caller arguments.
MaxArgs == 2

UrlSchemes == {"None", "Ssh", "Https"}

\* Characters of a path or an argument.
WordChars == {"x", " "}

\* The sequences of at most n elements of S.
SeqsUpTo(S, n) == UNION {[1 .. m -> S] : m \in 0 .. n}

\* GitCommand { repo_path, args }
GitCommands ==
    [repo_path : SeqsUpTo(WordChars, MaxWordLen) \ {<<>>},
     args : SeqsUpTo(SeqsUpTo(WordChars, MaxWordLen), MaxArgs)]

\* spawn: the arguments given to Command::new("git") with .arg / .args,
\* program name first.
SpawnArgv(cmd, scheme) ==
    << <<"git">> >>
        \o (IF scheme = "Ssh"
            THEN << <<"-c">>,
                    <<"url.git@github.com:.insteadOf=https://github.com/">> >>
            ELSE IF scheme = "Https"
            THEN << <<"-c">>,
                    <<"url.https://github.com/.insteadOf=git@github.com:">> >>
            ELSE <<>>)
        \o << <<"-C">>, cmd.repo_path >>
        \o cmd.args

RECURSIVE Join(_, _)
\* [String]::join(sep)
Join(words, sep) ==
    IF words = <<>> THEN <<>>
    ELSE IF Len(words) = 1 THEN words[1]
    ELSE words[1] \o sep \o Join(Tail(words), sep)

\* command_string_with_scheme:
\* format!("git {}-C {} {}", scheme_args, repo_path.display(), args.join(" "))
CommandString(cmd, scheme) ==
    LET scheme_args ==
            IF scheme = "Ssh"
            THEN <<"-c", " ", "\"",
                   "url.git@github.com:.insteadOf=https://github.com/",
                   "\"", " ">>
            ELSE IF scheme = "Https"
            THEN <<"-c", " ", "\"",
                   "url.https://github.com/.insteadOf=git@github.com:",
                   "\"", " ">>
            ELSE <<>>
    IN  <<"git", " ">> \o scheme_args \o <<"-C", " ">> \o cmd.repo_path
            \o <<" ">> \o Join(cmd.args, <<" ">>)

RenderInit ==
    /\ RunnerIdle
    /\ arg \in [cmd : GitCommands, scheme : UrlSchemes]
    /\ ret = [rendered |-> FALSE, text |-> <<>>,
              spawned |-> FALSE, argv |-> <<>>]

\* println!("{}", cmd.command_string_with_scheme(url_scheme))
CommandStringCall ==
    /\ ~ret.rendered
    /\ ret' = [ret EXCEPT !.rendered = TRUE,
                          !.text = CommandString(arg.cmd, arg.scheme)]
    /\ UNCHANGED <<arg, runner_vars>>

\* cmd.spawn(url_scheme)
SpawnCall ==
    /\ ~ret.spawned
    /\ ret' = [ret EXCEPT !.spawned = TRUE,
                          !.argv = SpawnArgv(arg.cmd, arg.scheme)]
    /\ UNCHANGED <<arg, runner_vars>>

RenderNext == CommandStringCall \/ SpawnCall

RenderSpec == RenderInit /\ [][RenderNext]_vars

RECURSIVE SplitWords(_, _, _, _, _)
\* The words a command line denotes, read as a shell reads it: spaces
\* outside double quotes separate words, the quotes themselves are
\* dropped.  `words` are the finished words, `cur` the word being read.
SplitWords(text, words, cur, inword, quoted) ==
    IF text = <<>> THEN (IF inword THEN Append(words, cur) ELSE words)
    ELSE IF Head(text) = "\""
    THEN SplitWords(Tail(text), words, cur, TRUE, ~quoted)
    ELSE IF Head(text) = " " /\ ~quoted
    THEN SplitWords(Tail(text),
                    IF inword THEN Append(words, cur) ELSE words,
                    <<>>, FALSE, FALSE)
    ELSE SplitWords(Tail(text), words, Append(cur, Head(text)), TRUE, quoted)

\* C16: the text command_string_with_scheme renders denotes exactly the
\* invocation spawn executes for the same command and scheme: read as a
\* command line it is the program git followed by the arguments spawn
\* passes (the -c override pair if and only if a scheme is given, with
\* the same value, before -C; then -C and the repo_path; then the caller's
\* arguments in order).
C16_RenderDenotesSpawn ==
    (ret # None /\ ret.rendered /\ ret.spawned) =>
        SplitWords(ret.text, <<>>, <<>>, FALSE, FALSE) = ret.argv

(***************************************************************************)
(* rust/src/repo.rs: find_git_repos_in and scan_dir                        *)
(*                                                                         *)
(* A path is the sequence of its components below the root (<<>> is the    *)
(* root).  The directory tree is a function from the paths it may hold to  *)
(* what is there.                                                          *)
(***************************************************************************)

\* Deepest level of the generated trees below the root.
MaxTreeDepth == 2

\* File names, in the order Path compares them.
FileNames == <<"a", "b">>

\* The paths a tree may hold: down to MaxTreeDepth levels, with entries
\* only inside the root and inside directories named "a".
TreePaths ==
    {p \in SeqsUpTo({"a", "b"}, MaxTreeDepth) \ {<<>>} :
        \A j \in 1 .. (Len(p) - 1) : p[j] = "a"}

\* What a path is: no entry, a regular file, a directory without .git, a
\* directory with a .git directory, a directory with a .git file, or a
\* directory without .git that fs::read_dir fails on.
Kinds == {"none", "file", "dir", "repo", "worktree", "unreadable"}

\* Entries exist only inside directories that hold entries.
Trees ==
    {tree \in [TreePaths -> Kinds] :
        \A p \in TreePaths :
            (Len(p) > 1 /\ tree[p] # "none") =>
                tree[SubSeq(p, 1, Len(p) - 1)] \in {"dir", "repo", "worktree"}}

\* ScanDepth::All and ScanDepth::Depth(n), n >= 1 as parse_scan_depth
\* gives it.
ScanDepths ==
    {[all |-> TRUE, depth |-> 0]}
        \cup {[all |-> FALSE, depth |-> d] : d \in 1 .. (MaxTreeDepth + 1)}

\* The orders in which fs::read_dir may yield the entries of a directory.
ReadDirOrders == {<<"a", "b">>, <<"b", "a">>}

\* path.join(".git").exists()
HasGit(tree, path) == tree[path] \in {"repo", "worktree"}

\* ScanDepth::max_depth
OptMaxDepth(scan_depth) ==
    [some |-> ~scan_depth.all, v |-> scan_depth.depth]

\* Mutant: the depth test is off by one.
ShouldDescendInclusive(next_depth, max_depth) ==
    ~max_depth.some \/ next_depth <= max_depth.v

\* max_depth.map_or(true, |max| next_depth < max)
ShouldDescend(next_depth, max_depth) ==
    ~max_depth.some \/ next_depth < max_depth.v

\* fs::read_dir(dir): the names of the entries of dir, in `order`.
ReadDir(tree, dir, order) ==
    SelectSeq(order,
              LAMBDA n : /\ Append(dir, n) \in TreePaths
                         /\ tree[Append(dir, n)] # "none")

RECURSIVE ScanDir(_, _, _, _, _, _)
RECURSIVE ScanEntries(_, _, _, _, _, _, _)

\* The body of the for loop of scan_dir over the remaining `entries`.
ScanEntries(tree, dir, depth, max_depth, repos, order, entries) ==
    IF entries = <<>> THEN [ok |-> TRUE, repos |-> repos]
    ELSE LET path == Append(dir, Head(entries))
             rest == Tail(entries)
         IN  IF tree[path] = "file"
             THEN ScanEntries(tree, dir, depth, max_depth, repos, order, rest)
             ELSE IF HasGit(tree, path)
             THEN ScanEntries(tree, dir, depth, max_depth,
                              Append(repos, path), order, rest)
             ELSE IF ShouldDescend(depth + 1, max_depth)
             THEN LET r == ScanDir(tree, path, depth + 1, max_depth, repos,
                                   order)
                  IN  IF r.ok
                      THEN ScanEntries(tree, dir, depth, max_depth, r.repos,
                                       order, rest)
                      ELSE r
             ELSE ScanEntries(tree, dir, depth, max_depth, repos, order, rest)

\* scan_dir(dir, depth, max_depth, repos): fs::read_dir(dir)? first.
ScanDir(tree, dir, depth, max_depth, repos, order) ==
    IF dir # <<>> /\ tree[dir] = "unreadable"
    THEN [ok |-> FALSE, repos |-> repos]
    ELSE ScanEntries(tree, dir, depth, max_depth, repos, order,
                     ReadDir(tree, dir, order))

\* The position of a file name in FileNames.
Rank(n) == CHOOSE j \in 1 .. Len(FileNames) : FileNames[j] = n

\* Ord for Path: component by component, a proper prefix first.
PathLess(p, q) ==
    \E j \in 1 .. (Len(q)) :
        /\ \A h \in 1 .. (j - 1) : h <= Len(p) /\ p[h] = q[h]
        /\ \/ j > Len(p)
           \/ j <= Len(p) /\ Rank(p[j]) < Rank(q[j])

RECURSIVE SortPaths(_)
\* repos.sort()
SortPaths(s) ==
    IF s = <<>> THEN <<>>
    ELSE LET sorted == SortPaths(SubSeq(s, 1, Len(s) - 1))
             e == s[Len(s)]
             n == Cardinality({j \in 1 .. Len(sorted) :
                                  ~PathLess(e, sorted[j])})
         IN  SubSeq(sorted, 1, n) \o <<e>>
                 \o SubSeq(sorted, n + 1, Len(sorted))

\* find_git_repos_in(root, scan_depth)
FindGitReposIn(tree, scan_depth, order) ==
    LET r == ScanDir(tree, <<>>, 0, OptMaxDepth(scan_depth), <<>>, order)
    IN  IF r.ok THEN [ok |-> TRUE, repos |-> SortPaths(r.repos)]
        ELSE [ok |-> FALSE, repos |-> <<>>]

ScanInit ==
    /\ RunnerIdle
    /\ arg \in [tree : Trees, scan_depth : ScanDepths, order : ReadDirOrders]
    /\ ret = None

FindGitReposInCall ==
    /\ ret = None
    /\ ret' = FindGitReposIn(arg.tree, arg.scan_depth, arg.order)
    /\ UNCHANGED <<arg, runner_vars>>

ScanSpec == ScanInit /\ [][FindGitReposInCall]_vars

\* The directories strictly between the root and path p.
AncestorsBelowRoot(p) == {SubSeq(p, 1, j) : j \in 1 .. (Len(p) - 1)}

\* C17: find_git_repos_in(root, Depth(d)) returns exactly the directories
\* that contain a .git entry (a directory or a plain file), lie at most d
\* levels below the root and have no ancestor below the root that is
\* itself a repository; with ScanDepth::All there is no depth limit; the
\* list is sorted by path and names no directory twice.  It returns the
\* error instead exactly when fs::read_dir fails on a directory the scan
\* has to read (one above the depth limit and not inside a repository).
C17_FindGitRepos ==
    ret # None =>
        LET tree == arg.tree
            within(p, d) == arg.scan_depth.all \/ Len(p) <= d
            outside(p) == \A q \in AncestorsBelowRoot(p) : ~HasGit(tree, q)
            expected ==
                {p \in TreePaths :
                    /\ tree[p] \in {"repo", "worktree"}
                    /\ within(p, arg.scan_depth.depth)
                    /\ outside(p)}
            failing ==
                {p \in TreePaths :
                    /\ tree[p] = "unreadable"
                    /\ within(p, arg.scan_depth.depth - 1)
                    /\ outside(p)}
        IN  /\ ret.ok <=> failing = {}
            /\ ret.ok =>
                /\ {ret.repos[j] : j \in 1 .. Len(ret.repos)} = expected
                /\ Len(ret.repos) = Cardinality(expected)
                /\ \A j \in 1 .. (Len(ret.repos) - 1) :
                       PathLess(ret.repos[j], ret.repos[j + 1])

\* Witness of C17: with Depth(2) and read_dir yielding "b" before "a", the
\* scan returns a/a (a .git directory, two levels down) before b (a .git
\* file), and not a/b, which is no repository.
C17_Witness ==
    /\ ret # None
    /\ arg.scan_depth = [all |-> FALSE, depth |-> 2]
    /\ arg.order = <<"b", "a">>
    /\ arg.tree[<<"a">>] = "dir"
    /\ arg.tree[<<"a", "a">>] = "repo"
    /\ arg.tree[<<"a", "b">>] = "dir"
    /\ arg.tree[<<"b">>] = "worktree"
    /\ ret = [ok |-> TRUE, repos |-> << <<"a", "a">>, <<"b">> >>]

(***************************************************************************)
(* rust/src/repo.rs: parse_scan_depth                                      *)
(***************************************************************************)

\* Longest generated value, in characters.
MaxValueLen == 4

\* Characters of a --scan-depth value.
ValueChars == {"a", "A", "l", "L", " ", "+", "-", "0", "1", "2"}

Digits == {"0", "1", "2"}

RECURSIVE TrimStart(_)
\* str::trim_start
TrimStart(str) ==
    IF str # <<>> /\ Head(str) = " " THEN TrimStart(Tail(str)) ELSE str

RECURSIVE TrimEnd(_)
\* str::trim_end
TrimEnd(str) ==
    IF str # <<>> /\ str[Len(str)] = " "
    THEN TrimEnd(SubSeq(str, 1, Len(str) - 1))
    ELSE str

\* str::trim
Trim(str) == TrimEnd(TrimStart(str))

\* u8::to_ascii_lowercase
ToAsciiLowercase(c) == IF c = "A" THEN "a" ELSE IF c = "L" THEN "l" ELSE c

\* str::eq_ignore_ascii_case
EqIgnoreAsciiCase(str, other) ==
    /\ Len(str) = Len(other)
    /\ \A j \in 1 .. Len(str) :
           ToAsciiLowercase(str[j]) = ToAsciiLowercase(other[j])

\* char::to_digit(10)
ToDigit(c) == IF c = "1" THEN 1 ELSE IF c = "2" THEN 2 ELSE 0

RECURSIVE ParseDigits(_, _)
\* The digit loop of usize::from_str: any other character is InvalidDigit.
\* (No value of at most MaxValueLen digits exceeds usize::MAX.)
ParseDigits(str, acc) ==
    IF str = <<>> THEN [ok |-> TRUE, v |-> acc]
    ELSE IF Head(str) \notin Digits THEN [ok |-> FALSE, v |-> 0]
    ELSE ParseDigits(Tail(str), acc * 10 + ToDigit(Head(str)))

\* str::parse::<usize>: the empty string and a lone sign are errors, a
\* leading "+" is accepted, a "-" is not.
ParseUsize(str) ==
    IF str = <<>> THEN [ok |-> FALSE, v |-> 0]
    ELSE IF str = <<"+">> \/ str = <<"-">> THEN [ok |-> FALSE, v |-> 0]
    ELSE IF Head(str) = "+" THEN ParseDigits(Tail(str), 0)
    ELSE ParseDigits(str, 0)

ScanDepthAll == [kind |-> "All", depth |-> 0]
ScanDepthOf(n) == [kind |-> "Depth", depth |-> n]
ScanDepthErr == [kind |-> "Err", depth |-> 0]

\* Mutant: the test for 0 is missing.
ParseScanDepthNoZeroTest(value) ==
    LET normalized == Trim(value) IN
    IF EqIgnoreAsciiCase(normalized, <<"a", "l", "l">>) THEN ScanDepthAll
    ELSE LET depth == ParseUsize(normalized) IN
         IF ~depth.ok THEN ScanDepthErr
         ELSE ScanDepthOf(depth.v)

\* parse_scan_depth(value)
ParseScanDepth(value) ==
    LET normalized == Trim(value) IN
    IF EqIgnoreAsciiCase(normalized, <<"a", "l", "l">>) THEN ScanDepthAll
    ELSE LET depth == ParseUsize(normalized) IN
         IF ~depth.ok THEN ScanDepthErr
         ELSE IF depth.v = 0 THEN ScanDepthErr
         ELSE ScanDepthOf(depth.v)

DepthInit ==
    /\ RunnerIdle
    /\ arg \in SeqsUpTo(ValueChars, MaxValueLen)
    /\ ret = None

ParseScanDepthCall ==
    /\ ret = None
    /\ ret' = ParseScanDepth(arg)
    /\ UNCHANGED <<arg, runner_vars>>

DepthSpec == DepthInit /\ [][ParseScanDepthCall]_vars

\* The string is one or more decimal digits.
IsDecimal(str) == str # <<>> /\ \A j \in 1 .. Len(str) : str[j] \in Digits

RECURSIVE DecimalValue(_)
\* The number a string of decimal digits denotes.
DecimalValue(str) ==
    IF str = <<>> THEN 0
    ELSE 10 * DecimalValue(SubSeq(str, 1, Len(str) - 1))
             + (IF str[Len(str)] = "2" THEN 2
                ELSE IF str[Len(str)] = "1" THEN 1 ELSE 0)

\* C18: parse_scan_depth takes "all" in any letter case, after trimming,
\* as ScanDepth::All and a decimal integer n >= 1 (with or without a
\* leading "+") as ScanDepth::Depth(n); it returns an error for "0" (any
\* decimal 0) and for every other input that is no decimal integer, and
\* it never returns Depth(0).
C18_ParseScanDepth ==
    ret # None =>
        LET t == Trim(arg)
            isAll == /\ Len(t) = 3
                     /\ t[1] \in {"a", "A"}
                     /\ t[2] \in {"l", "L"}
                     /\ t[3] \in {"l", "L"}
            number == IF t # <<>> /\ Head(t) = "+" THEN Tail(t) ELSE t
        IN  /\ (t = <<>> \/ (t[1] # " " /\ t[Len(t)] # " "))
            /\ isAll => ret = ScanDepthAll
            /\ (IsDecimal(number) /\ DecimalValue(number) >= 1) =>
                   ret = ScanDepthOf(DecimalValue(number))
            /\ (IsDecimal(number) /\ DecimalValue(number) = 0) =>
                   ret = ScanDepthErr
            /\ (~isAll /\ ~IsDecimal(number)) => ret = ScanDepthErr
            /\ ret.kind = "Depth" => ret.depth >= 1

\* Witness of C18: " AlL" is ScanDepth::All.
C18_Witness ==
    /\ arg = <<" ", "A", "l", "L">>
    /\ ret = ScanDepthAll

====
